---- MODULE Spec2Model ----
(***************************************************************************)
(* Head-shape point selection (mne/transforms/headshape_gui.py): the       *)
(* HeadShape object with its resolution-keyed decimation cache, its        *)
(* per-resolution exclusion store and the pick callback of ControlPanel.   *)
(*                                                                         *)
(* A point is one integer coordinate (the source has three floats per      *)
(* point; one is enough to tell points apart and to tell a zero point      *)
(* from a non-zero one).  An array of points is a sequence.  A Python      *)
(* dict is a function whose DOMAIN is the set of its keys.                 *)
(*                                                                         *)
(* Trait semantics the handlers rest on: assigning a trait runs its change *)
(* handlers synchronously, after the value is stored, and only when the    *)
(* new value differs from the old one (lists compare by equality, arrays   *)
(* by identity, so every load notifies); an exception raised inside a      *)
(* change handler ends that handler and is logged, not propagated.         *)
(*                                                                         *)
(* Channel equalization (mne/fiff/channels.py): equalize_channels and      *)
(* DropChannelsMixin.drop_channels on a list of Raw, Epochs and Evoked     *)
(* objects.  A channel name is a number of 1..NChan; a data row, a         *)
(* projector row or column is written as the name of the channel it        *)
(* belongs to, a pick as the file index of its channel.                    *)
(***************************************************************************)
EXTENDS Integers, Sequences, FiniteSets, TLC

VARIABLES
    loaded,         \* hasattr(self, '_cache'): load() has run once
    hsp_points,     \* HeadShape.hsp_points, the source cloud
    resolution,     \* HeadShape.resolution
    exclude,        \* HeadShape.exclude, the active exclusion list
    points,         \* HeadShape.points, the visible point set
    ref_points,     \* HeadShape.ref_points
    n_points_all,   \* HeadShape.n_points_all
    _cache,         \* HeadShape._cache: resolution -> decimated points
    _exclude,       \* HeadShape._exclude: resolution -> exclusion list
    calls,          \* decimate_headshape invocations per resolution since the last load
    leftWith,       \* resolution left -> the exclusion list that was active on leaving it
    err,            \* exception raised or logged by the last operation
    lastOp,         \* the last operation and its argument
    candidates,     \* the list of Raw / Epochs / Evoked objects
    chanOp          \* the last channel operation, its arguments and its exception

vars == <<loaded, hsp_points, resolution, exclude, points, ref_points,
          n_points_all, _cache, _exclude, calls, leftWith, err, lastOp,
          candidates, chanOp>>

headVars == <<loaded, hsp_points, resolution, exclude, points, ref_points,
              n_points_all, _cache, _exclude, calls, leftWith, err, lastOp>>

chanVars == <<candidates, chanOp>>

----------------------------------------------------------------------------
(* Program constants *)

\* resolution = Range(value=35, low=5, high=50)
ResDefault == 35
ResLow == 5
ResHigh == 50
\* update_ref_points: self.get_dec_points(10)
RefRes == 10

(* Bounds of the model *)

\* exclusion indices a user may type are drawn from -1 .. MaxIndex
MaxIndex == 4
\* the provider call counter saturates here
MaxCalls == 2
\* the largest decimated set of PickSpec
MaxN == 10

\* the resolutions in use: the reference resolution and the default
Resolutions == {RefRes, ResDefault}

\* the values resolution is set to: those, and one beyond each end of the range
ResolutionInputs == Resolutions \cup {ResLow - 1, ResHigh + 1}

\* the source clouds read from files
Clouds == { <<0, 12, 24>>, <<3>> }

\* exclusion lists typed into the editor: any order, duplicates, negative and
\* too large indices
Indices == -1 .. MaxIndex
ExcludeInputs ==
    {<<>>} \cup {<<a>> : a \in Indices} \cup {<<a, b>> : a, b \in Indices}

\* the resolution lists given to cache(): none, the default range's member, all
WarmInputs == { <<>>, <<ResDefault>>, <<RefRes, ResDefault>> }

----------------------------------------------------------------------------
(* Helpers: Python built-ins *)

EmptyDict == [x \in {} |-> <<>>]

\* dict.get(k, default)
Get(d, k, default) == IF k \in DOMAIN d THEN d[k] ELSE default

\* d[k] = v
Put(d, k, v) == [x \in DOMAIN d \cup {k} |-> IF x = k THEN v ELSE d[x]]

\* set(seq)
ToSet(seq) == {seq[i] : i \in 1..Len(seq)}

Min(S) == CHOOSE x \in S : \A y \in S : x <= y

\* sorted(set)
RECURSIVE Sorted(_)
Sorted(S) ==
    IF S = {} THEN <<>> ELSE <<Min(S)>> \o Sorted(S \ {Min(S)})

\* sorted(list): duplicates are kept
RECURSIVE insert(_, _)
insert(x, seq) ==
    IF seq = <<>> THEN <<x>>
    ELSE IF x <= Head(seq) THEN <<x>> \o seq
    ELSE <<Head(seq)>> \o insert(x, Tail(seq))

RECURSIVE sorted(_)
sorted(seq) ==
    IF seq = <<>> THEN <<>> ELSE insert(Head(seq), sorted(Tail(seq)))

\* pts[sel] for the boolean mask that is False exactly at the 0-based rows in E
Rows(pts, E) ==
    LET keep == Sorted({i \in 1..Len(pts) : (i - 1) \notin E})
    IN  [j \in 1..Len(keep) |-> pts[keep[j]]]

----------------------------------------------------------------------------
(* The decimation provider: one point kept per cell of size res, the first  *)
(* of the cloud's points that falls into it, in the cloud's order.          *)
decimate_headshape(pts, res) ==
    LET first == {i \in 1..Len(pts) :
                    \A j \in 1..(i - 1) : pts[j] \div res # pts[i] \div res}
        keep == Sorted(first)
    IN  [j \in 1..Len(keep) |-> pts[keep[j]]]

----------------------------------------------------------------------------
(* The object's state as a record, so that handlers compose *)

Self ==
    [loaded |-> loaded, hsp_points |-> hsp_points, resolution |-> resolution,
     exclude |-> exclude, points |-> points, ref_points |-> ref_points,
     n_points_all |-> n_points_all, _cache |-> _cache, _exclude |-> _exclude,
     calls |-> calls, err |-> "none"]

Bump(n) == IF n < MaxCalls THEN n + 1 ELSE MaxCalls

\* get_dec_points without the cache lookup: the provider runs on every call
get_dec_points_nocache(s, res) ==
    IF ~s.loaded THEN [s EXCEPT !.err = "RuntimeError"]
    ELSE [s EXCEPT !._cache = Put(@, res, decimate_headshape(s.hsp_points, res)),
                   !.calls = [@ EXCEPT ![res] = Bump(@)]]

\* get_dec_points, the state it leaves (the cache filled on a miss)
get_dec_points(s, res) ==
    IF ~s.loaded THEN [s EXCEPT !.err = "RuntimeError"]
    ELSE IF res \in DOMAIN s._cache THEN s
    ELSE [s EXCEPT !._cache = Put(@, res, decimate_headshape(s.hsp_points, res)),
                   !.calls = [@ EXCEPT ![res] = Bump(@)]]

\* the index array self.exclude addresses a row of an array of length n
InBounds(i, n) == -n <= i /\ i < n

\* the 0-based row an index addresses (negative indices count from the end)
Row(i, n) == IF i < 0 THEN n + i ELSE i

update_points(s) ==
    LET s1 == get_dec_points(s, s.resolution)
        pts == s1._cache[s.resolution]
        s2 == [s1 EXCEPT !.n_points_all = Len(pts)]
    IN  IF s1.err # "none" THEN s1
        ELSE IF s2.exclude = <<>> THEN [s2 EXCEPT !.points = pts]
        ELSE IF \E i \in ToSet(s2.exclude) : ~InBounds(i, Len(pts))
             THEN [s2 EXCEPT !.err = "IndexError"]
        ELSE [s2 EXCEPT !.points =
                 Rows(pts, {Row(i, Len(pts)) : i \in ToSet(s2.exclude)})]

\* the validation with list(items) in place of sorted(items): the order of
\* the list is not the ascending one
RECURSIVE Descending(_)
Descending(S) ==
    IF S = {} THEN <<>> ELSE Append(Descending(S \ {Min(S)}), Min(S))

validated_unsorted(ex, n) == Descending({i \in ToSet(ex) : ~(i > n \/ i < 0)})

\* the validation of _exclude_changed: set(self.exclude), the loop that removes
\* i > n_points_all and i < 0, and sorted(items)
validated(ex, n) == Sorted({i \in ToSet(ex) : ~(i > n \/ i < 0)})

\* self.exclude = new, with the change notification: _exclude_changed runs
\* when the value differs
RECURSIVE assign_exclude(_, _)
assign_exclude(s, new) ==
    IF new = s.exclude THEN s
    ELSE LET s0 == [s EXCEPT !.exclude = new]
         IN  IF ~s0.loaded THEN s0
             ELSE LET ex == validated(s0.exclude, s0.n_points_all)
                      s1 == [s0 EXCEPT !._exclude = Put(@, s0.resolution, ex)]
                      s2 == assign_exclude(s1, ex)
                  IN  update_points([s2 EXCEPT !.err = "none"])

\* _exclude_items_changed, after the list was changed in place to items
exclude_items_changed(s, items) ==
    LET s0 == [s EXCEPT !.exclude = items]
        more == IF items # <<>> THEN Append(items, items[1]) ELSE Append(items, -1)
    IN  assign_exclude(s0, more)

\* update_ref_points at the active resolution in place of the fixed one
update_ref_points_active(s) ==
    LET s1 == get_dec_points(s, s.resolution)
    IN  IF s1.err # "none" THEN s1
        ELSE [s1 EXCEPT !.ref_points = s1._cache[s.resolution]]

update_ref_points(s) ==
    LET s1 == get_dec_points(s, RefRes)
    IN  IF s1.err # "none" THEN s1
        ELSE [s1 EXCEPT !.ref_points = s1._cache[RefRes]]

\* update_base_points that keeps the active list in place of the stored one
update_base_points_keep(s) ==
    IF ~s.loaded THEN s ELSE update_points(s)

\* update_base_points without its hasattr guard
update_base_points_unguarded(s) ==
    update_points(
      [assign_exclude(s, Get(s._exclude, s.resolution, <<>>))
         EXCEPT !.err = "none"])

update_base_points(s) ==
    IF ~s.loaded THEN s
    ELSE update_points(
           [assign_exclude(s, Get(s._exclude, s.resolution, <<>>))
              EXCEPT !.err = "none"])

\* load that keeps the decimation cache of the previous cloud
load_keep_cache(s, pts) ==
    update_base_points(update_ref_points(
        [s EXCEPT !.loaded = TRUE,
                  !.calls = [r \in Resolutions |-> 0],
                  !._exclude = EmptyDict, !.hsp_points = pts]))

\* load that keeps the exclusion store of the previous cloud
load_keep_exclude(s, pts) ==
    update_base_points(update_ref_points(
        [s EXCEPT !.loaded = TRUE, !._cache = EmptyDict,
                  !.calls = [r \in Resolutions |-> 0],
                  !.hsp_points = pts]))

\* load(fname), read_hsp having returned pts: the two dicts are replaced, then
\* the assignment of hsp_points runs update_ref_points and update_base_points
load(s, pts) ==
    update_base_points(update_ref_points(
        [s EXCEPT !.loaded = TRUE, !._cache = EmptyDict,
                  !.calls = [r \in Resolutions |-> 0],
                  !._exclude = EmptyDict, !.hsp_points = pts]))

\* a failing load that replaces the two dicts before read_hsp is called
load_fail_cleared(s) ==
    [s EXCEPT !._cache = EmptyDict, !._exclude = EmptyDict, !.err = "IOError"]

\* a failing load that discards the cache attribute
load_fail_unloads(s) ==
    [s EXCEPT !.loaded = FALSE, !._cache = EmptyDict, !._exclude = EmptyDict,
              !.err = "IOError"]

\* load(fname), read_hsp raising: no statement after it runs
load_fail(s) == [s EXCEPT !.err = "IOError"]

\* the resolution trait assigned without the Range check
set_resolution_unchecked(s, r) ==
    IF r = s.resolution THEN s
    ELSE update_base_points([s EXCEPT !.resolution = r])

\* self.resolution = r: Range(low=5, high=50) refuses a value outside it with
\* a TraitError and keeps the old one; an equal value notifies nobody; any
\* other runs update_base_points
set_resolution(s, r) ==
    IF r < ResLow \/ r > ResHigh THEN [s EXCEPT !.err = "TraitError"]
    ELSE IF r = s.resolution THEN s
    ELSE update_base_points([s EXCEPT !.resolution = r])

\* n_points: len(self.points)
n_points == Len(points)

\* can_save: np.any(self.points), some coordinate of some point is not zero
can_save == \E i \in 1..Len(points) : points[i] # 0

\* the translation with idx > e_idx in place of idx >= e_idx
RECURSIVE shift_gt(_, _)
shift_gt(idx, ex) ==
    IF ex = <<>> THEN idx
    ELSE shift_gt(IF idx > Head(ex) THEN idx + 1 ELSE idx, Tail(ex))

\* the translation of picker_callback
RECURSIVE shift(_, _)
shift(idx, ex) ==
    IF ex = <<>> THEN idx
    ELSE shift(IF idx >= Head(ex) THEN idx + 1 ELSE idx, Tail(ex))

pick_index(point_id, ex) == shift(point_id, sorted(ex))

\* picker_callback without the test for -1
picker_callback_nosentinel(s, point_id) ==
    exclude_items_changed(s, Append(s.exclude, pick_index(point_id, s.exclude)))

\* picker_callback for a pick on the head-shape glyph
picker_callback(s, point_id) ==
    IF point_id = -1 THEN s
    ELSE exclude_items_changed(s, Append(s.exclude, pick_index(point_id, s.exclude)))

\* cache that moves the active resolution through the list to fill the cache
RECURSIVE cache_by_resolution(_, _)
cache_by_resolution(s, resolutions) ==
    IF resolutions = <<>> THEN s
    ELSE LET s1 == get_dec_points(s, Head(resolutions))
         IN  IF s1.err # "none" THEN s1
             ELSE cache_by_resolution(
                    update_base_points([s EXCEPT !.resolution = Head(resolutions)]),
                    Tail(resolutions))

\* cache(resolutions): the loop ends at the first get_dec_points that raises
RECURSIVE cache(_, _)
cache(s, resolutions) ==
    IF resolutions = <<>> THEN s
    ELSE LET s1 == get_dec_points(s, Head(resolutions))
         IN  IF s1.err # "none" THEN s1 ELSE cache(s1, Tail(resolutions))

----------------------------------------------------------------------------
Init ==
    /\ loaded = FALSE
    /\ hsp_points = <<>>
    /\ resolution = ResDefault
    /\ exclude = <<>>
    /\ points = <<>>
    /\ ref_points = <<>>
    /\ n_points_all = 0
    /\ _cache = EmptyDict
    /\ _exclude = EmptyDict
    /\ calls = [r \in Resolutions |-> 0]
    /\ leftWith = EmptyDict
    /\ err = "none"
    /\ lastOp = [op |-> "init", arg |-> 0]
    /\ candidates = <<>>
    /\ chanOp = [op |-> "init", arg |-> 0, names |-> {}, err |-> "none"]

\* leftWith without the entry of the active resolution r: the entry is compared
\* on the return to r and dropped by the next operation
Away(d, r) == [x \in DOMAIN d \ {r} |-> d[x]]

\* the new values of the object's fields
Commit(s) ==
    /\ loaded' = s.loaded
    /\ hsp_points' = s.hsp_points
    /\ resolution' = s.resolution
    /\ exclude' = s.exclude
    /\ points' = s.points
    /\ ref_points' = s.ref_points
    /\ n_points_all' = s.n_points_all
    /\ _cache' = s._cache
    /\ _exclude' = s._exclude
    /\ calls' = s.calls
    /\ err' = s.err

\* load(fname) with read_hsp returning the cloud pts; lastOp.arg tells a first
\* load (0) from one that replaces a cloud by another (1) or by an equal one (2)
Load(pts) ==
    /\ Commit(load(Self, pts))
    /\ leftWith' = EmptyDict
    /\ lastOp' = [op |-> "load",
                  arg |-> IF ~loaded THEN 0 ELSE IF pts # hsp_points THEN 1 ELSE 2]
    /\ UNCHANGED chanVars

\* resolution is set to r
SetResolution(r) ==
    /\ Commit(set_resolution(Self, r))
    /\ leftWith' = IF loaded /\ resolution' # resolution
                   THEN Put(leftWith, resolution, exclude) ELSE leftWith
    /\ lastOp' = [op |-> "setResolution", arg |-> r]
    /\ UNCHANGED chanVars

\* the editor replaces the exclusion list by X
SetExclude(X) ==
    /\ Commit(assign_exclude(Self, X))
    /\ leftWith' = Away(leftWith, resolution)
    /\ lastOp' = [op |-> "setExclude", arg |-> 0]
    /\ UNCHANGED chanVars

\* a pick event on the head-shape glyph: the index of a rendered point, or -1
Pick(k) ==
    /\ Commit(picker_callback(Self, k))
    /\ leftWith' = Away(leftWith, resolution)
    /\ lastOp' = [op |-> "pick", arg |-> k]
    /\ UNCHANGED chanVars

\* a pick event on another actor: picker_callback returns at once
PickOther ==
    /\ Commit(Self)
    /\ leftWith' = Away(leftWith, resolution)
    /\ lastOp' = [op |-> "pickOther", arg |-> 0]
    /\ UNCHANGED chanVars

\* a direct call of get_dec_points(r)
GetDecPoints(r) ==
    /\ Commit(get_dec_points(Self, r))
    /\ leftWith' = Away(leftWith, resolution)
    /\ lastOp' = [op |-> "get_dec_points", arg |-> r]
    /\ UNCHANGED chanVars

\* cache(resolutions)
Cache(resolutions) ==
    /\ Commit(cache(Self, resolutions))
    /\ leftWith' = Away(leftWith, resolution)
    /\ lastOp' = [op |-> "cache", arg |-> Len(resolutions)]
    /\ UNCHANGED chanVars

\* load(fname) with read_hsp raising: no statement after it runs
LoadFail ==
    /\ Commit(load_fail(Self))
    /\ leftWith' = Away(leftWith, resolution)
    /\ lastOp' = [op |-> "loadFail", arg |-> 0]
    /\ UNCHANGED chanVars

Next ==
    \/ \E pts \in Clouds : Load(pts)
    \/ \E r \in ResolutionInputs : SetResolution(r)
    \/ \E X \in ExcludeInputs : SetExclude(X)
    \/ \E k \in -1 .. (Len(points) - 1) : Pick(k)
    \/ PickOther
    \/ \E r \in Resolutions : GetDecPoints(r)
    \/ \E rs \in WarmInputs : Cache(rs)
    \/ LoadFail

Spec == Init /\ [][Next]_vars

----------------------------------------------------------------------------
(* Picks on every valid exclusion set of clouds of up to MaxN points: the    *)
(* states the object is in after load (at the default resolution), a change  *)
(* of the resolution to RefRes and an edit of the exclusion list to E.       *)

\* a cloud of n points, each in a cell of its own at RefRes
PickCloud(n) == [i \in 1..n |-> RefRes * (i - 1)]

PickInit ==
    \E n \in 1..MaxN : \E E \in SUBSET (0..(n - 1)) :
        /\ loaded = TRUE
        /\ hsp_points = PickCloud(n)
        /\ resolution = RefRes
        /\ exclude = Sorted(E)
        /\ points = Rows(decimate_headshape(PickCloud(n), RefRes), E)
        /\ ref_points = decimate_headshape(PickCloud(n), RefRes)
        /\ n_points_all = n
        /\ _cache = [r \in Resolutions |-> decimate_headshape(PickCloud(n), r)]
        /\ _exclude = IF E = {} THEN EmptyDict
                      ELSE [r \in {RefRes} |-> Sorted(E)]
        /\ calls = [r \in Resolutions |-> 1]
        /\ leftWith = [r \in {ResDefault} |-> <<>>]
        /\ err = "none"
        /\ lastOp = [op |-> "setExclude", arg |-> 0]
        /\ candidates = <<>>
        /\ chanOp = [op |-> "init", arg |-> 0, names |-> {}, err |-> "none"]

PickNext == \E k \in -1 .. (Len(points) - 1) : Pick(k)

PickSpec == PickInit /\ [][PickNext]_vars

----------------------------------------------------------------------------
(* Channel equalization: mne/fiff/channels.py                              *)

\* the number of channel names
NChan == 3

Names == 1..NChan

\* the index in the raw file of the channel named n (an Epochs pick)
FileIndex(n) == n - 1

\* self.ch_names: the channel names of the measurement info
ch_names(c) == c.info.ch_names

\* list.index(x): the 0-based position of the first x
index(seq, x) == Min({i \in 1..Len(seq) : seq[i] = x}) - 1

\* [seq[k] for k in idx], seq[idx] and seq[idx, :]: the rows of seq at the
\* 0-based indices idx, in the order of idx
Take(seq, idx) == [j \in 1..Len(idx) |-> seq[idx[j] + 1]]

\* pick_info(info, sel, copy=False): the info restricted to the channels sel
pick_info(info, sel) ==
    [ch_names |-> Take(info.ch_names, sel), nchan |-> Len(sel)]

\* a Raw, Epochs or Evoked object with the channels names: Epochs carry
\* picks, a projector is there or None, the data are there when the object
\* is preloaded or an Evoked
Object(kind, names, preload, projector) ==
    [kind |-> kind,
     info |-> [ch_names |-> names, nchan |-> Len(names)],
     has_picks |-> kind = "Epochs",
     picks |-> IF kind = "Epochs"
               THEN [j \in 1..Len(names) |-> FileIndex(names[j])] ELSE <<>>,
     has_projector |-> projector,
     proj_rows |-> IF projector THEN names ELSE <<>>,
     proj_cols |-> IF projector THEN names ELSE <<>>,
     preload |-> preload,
     data |-> IF preload \/ kind = "Evoked" THEN names ELSE <<>>]

\* drop_channels raises ValueError at list.index when a name is not there
drop_raises(c, names) == \E n \in ToSet(names) : n \notin ToSet(ch_names(c))

\* the surviving indices: np.setdiff1d(np.arange(len(ch_names)), bad_idx)
surviving(c, names) ==
    Sorted((0..(Len(ch_names(c)) - 1)) \ {index(ch_names(c), n) : n \in ToSet(names)})

\* drop_channels with the projector selected on its rows only
drop_channels_rows_only(c, names) ==
    LET idx == surviving(c, names)
        hasData == \/ c.kind = "Raw" /\ c.preload
                   \/ c.kind = "Epochs" /\ c.preload
                   \/ c.kind = "Evoked"
    IN  [c EXCEPT !.picks = IF c.has_picks THEN Take(@, idx) ELSE @,
                  !.info = pick_info(@, idx),
                  !.proj_rows = IF c.has_projector THEN Take(@, idx) ELSE @,
                  !.data = IF hasData THEN Take(@, idx) ELSE @]

\* DropChannelsMixin.drop_channels(ch_names), every name being there
drop_channels(c, names) ==
    LET idx == surviving(c, names)
        hasData == \/ c.kind = "Raw" /\ c.preload
                   \/ c.kind = "Epochs" /\ c.preload
                   \/ c.kind = "Evoked"
    IN  [c EXCEPT !.picks = IF c.has_picks THEN Take(@, idx) ELSE @,
                  !.info = pick_info(@, idx),
                  !.proj_rows = IF c.has_projector THEN Take(@, idx) ELSE @,
                  !.proj_cols = IF c.has_projector THEN Take(@, idx) ELSE @,
                  !.data = IF hasData THEN Take(@, idx) ELSE @]

\* np.argmax: the first position of the largest value
argmax(seq) == Min({i \in 1..Len(seq) : \A j \in 1..Len(seq) : seq[j] <= seq[i]})

\* equalize_channels taking the template's channels for the common ones
equalize_channels_template(cands) ==
    IF \E i \in 1..Len(cands) : cands[i].kind \notin {"Raw", "Epochs", "Evoked"}
    THEN [candidates |-> cands, dropped |-> {}, err |-> "ValueError"]
    ELSE
        LET chan_max_idx == argmax([i \in 1..Len(cands) |-> cands[i].info.nchan])
            chan_template == ch_names(cands[chan_max_idx])
            common_channels == ToSet(chan_template)
            drop_them(c) == ToSet(ch_names(c)) \ common_channels
        IN  [candidates |-> [i \in 1..Len(cands) |->
                                IF drop_them(cands[i]) # {}
                                THEN drop_channels(cands[i], Sorted(drop_them(cands[i])))
                                ELSE cands[i]],
             dropped |-> UNION {drop_them(cands[i]) : i \in 1..Len(cands)},
             err |-> "none"]

\* equalize_channels(candidates), candidates being a list that is not empty
equalize_channels(cands) ==
    IF \E i \in 1..Len(cands) : cands[i].kind \notin {"Raw", "Epochs", "Evoked"}
    THEN [candidates |-> cands, dropped |-> {}, err |-> "ValueError"]
    ELSE
        LET chan_max_idx == argmax([i \in 1..Len(cands) |-> cands[i].info.nchan])
            chan_template == ch_names(cands[chan_max_idx])
            common_channels ==
                {n \in ToSet(chan_template) :
                    \A i \in 1..Len(cands) : n \in ToSet(ch_names(cands[i]))}
            drop_them(c) == ToSet(ch_names(c)) \ common_channels
        IN  [candidates |-> [i \in 1..Len(cands) |->
                                IF drop_them(cands[i]) # {}
                                THEN drop_channels(cands[i], Sorted(drop_them(cands[i])))
                                ELSE cands[i]],
             dropped |-> UNION {drop_them(cands[i]) : i \in 1..Len(cands)},
             err |-> "none"]

\* a list read backwards
Reversed(seq) == [j \in 1..Len(seq) |-> seq[Len(seq) + 1 - j]]

\* the channel lists of the objects a run starts from: no name twice
NameLists ==
    {Sorted(S) : S \in SUBSET Names \ {{}}} \cup
    {Reversed(Sorted(S)) : S \in SUBSET Names \ {{}}}

\* the objects a run starts from
Objects ==
    {Object("Raw", n, TRUE, TRUE) : n \in NameLists} \cup
    {Object("Epochs", n, TRUE, TRUE) : n \in NameLists} \cup
    {Object("Evoked", n, FALSE, FALSE) : n \in NameLists}

LazyObjects ==
    {Object("Raw", n, FALSE, FALSE) : n \in NameLists} \cup
    {Object("Epochs", n, FALSE, TRUE) : n \in NameLists}

Evokeds == {Object("Evoked", Sorted(S), FALSE, FALSE) : S \in SUBSET Names \ {{}}}

\* the candidate lists a run starts from
CandidateLists ==
    {<<c>> : c \in Objects \cup LazyObjects} \cup
    {<<c, d>> : c \in Objects, d \in Evokeds} \cup
    {<<c, d, Object("Evoked", <<1, 2>>, FALSE, FALSE)>> : c \in Evokeds, d \in Evokeds} \cup
    {<<c, Object("Other", <<1>>, FALSE, FALSE)>> : c \in Evokeds}

ChanInit ==
    /\ loaded = FALSE
    /\ hsp_points = <<>>
    /\ resolution = ResDefault
    /\ exclude = <<>>
    /\ points = <<>>
    /\ ref_points = <<>>
    /\ n_points_all = 0
    /\ _cache = EmptyDict
    /\ _exclude = EmptyDict
    /\ calls = [r \in Resolutions |-> 0]
    /\ leftWith = EmptyDict
    /\ err = "none"
    /\ lastOp = [op |-> "init", arg |-> 0]
    /\ candidates \in CandidateLists
    /\ chanOp = [op |-> "init", arg |-> 0, names |-> {}, err |-> "none"]

\* equalize_channels(candidates)
Equalize ==
    /\ candidates' = equalize_channels(candidates).candidates
    /\ chanOp' = [op |-> "equalize", arg |-> 0,
                  names |-> equalize_channels(candidates).dropped,
                  err |-> equalize_channels(candidates).err]
    /\ UNCHANGED headVars

\* candidates[i].drop_channels(D)
DropChannels(i, D) ==
    /\ i \in 1..Len(candidates)
    /\ candidates[i].kind \in {"Raw", "Epochs", "Evoked"}
    /\ candidates' = IF drop_raises(candidates[i], Sorted(D)) THEN candidates
                     ELSE [candidates EXCEPT ![i] = drop_channels(@, Sorted(D))]
    /\ chanOp' = [op |-> "drop", arg |-> i, names |-> D,
                  err |-> IF drop_raises(candidates[i], Sorted(D))
                          THEN "ValueError" ELSE "none"]
    /\ UNCHANGED headVars

ChanNext ==
    \/ Equalize
    \/ \E i \in 1..Len(candidates) : \E D \in SUBSET Names : DropChannels(i, D)

ChanSpec == ChanInit /\ [][ChanNext]_vars

----------------------------------------------------------------------------
(* The vocabulary of the properties *)

\* DecimatedSet(r): the provider's answer for the current source cloud
DecimatedSet(r) == decimate_headshape(hsp_points, r)

\* a sequence without the rows whose 0-based index is in E, order kept
RECURSIVE WithoutFrom(_, _, _)
WithoutFrom(seq, E, i) ==
    IF seq = <<>> THEN <<>>
    ELSE (IF i \in E THEN <<>> ELSE <<Head(seq)>>) \o WithoutFrom(Tail(seq), E, i + 1)

Without(seq, E) == WithoutFrom(seq, E, 0)

\* a list is ascending without duplicates
Ascending(seq) == \A i \in 1..(Len(seq) - 1) : seq[i] < seq[i + 1]

\* every index of the list addresses a row of an array of n rows
InRange(seq, n) == \A i \in 1..Len(seq) : 0 <= seq[i] /\ seq[i] < n

----------------------------------------------------------------------------
\* C1: excluded points are remembered per resolution.  When a resolution r was
\* left with the valid exclusion list E active and the slider returns to r with
\* no load in between, the active list is E again and the visible points are
\* DecimatedSet(r) without the rows in E.
C1_RememberedPerResolution ==
    (/\ loaded
     /\ lastOp.op = "setResolution"
     /\ resolution \in DOMAIN leftWith
     /\ InRange(leftWith[resolution], Len(DecimatedSet(resolution))))
    => /\ exclude = leftWith[resolution]
       /\ points = Without(DecimatedSet(resolution), ToSet(leftWith[resolution]))

\* C2: in every loaded state each index of the active exclusion list and of
\* every stored exclusion list addresses a row of its resolution's decimated set.
C2_IndicesInRange ==
    loaded =>
        /\ InRange(exclude, Len(DecimatedSet(resolution)))
        /\ \A r \in DOMAIN _exclude : InRange(_exclude[r], Len(DecimatedSet(r)))

\* C3: the pick translation is exact.  A pick of the visible index k on a valid
\* exclusion list E of a decimated set of n points adds to the list the one
\* index d of 0..n-1 that is not in E and has exactly k non-excluded indices
\* below it; for n = 10 and E = {2, 5}, visible 0 is 0 and visible 2 is 3.
C3_PickTranslationExact ==
    [][\A k \in 0..(Len(points) - 1) :
         LET n == Len(DecimatedSet(resolution))
             E == ToSet(exclude)
             added == ToSet(exclude') \ E
         IN  (/\ lastOp'.op = "pick" /\ lastOp'.arg = k
              /\ Ascending(exclude) /\ InRange(exclude, n)
              /\ Len(points) = n - Len(exclude))
             => /\ \E d \in 0..(n - 1) :
                      /\ added = {d}
                      /\ Cardinality({j \in 0..(d - 1) : j \notin E}) = k
                /\ (n = 10 /\ exclude = <<2, 5>> /\ k = 0) => added = {0}
                /\ (n = 10 /\ exclude = <<2, 5>> /\ k = 2) => added = {3}]_vars

\* the pick of visible 2 on a set of 10 with two exclusions below and above
C3_Witness ==
    /\ lastOp = [op |-> "pick", arg |-> 2]
    /\ n_points_all = 10
    /\ exclude = <<2, 3, 5>>
    /\ Len(points) = 7

\* C4: in every loaded state the visible points are the decimated set of the
\* active resolution without the rows of the active exclusion list, order kept.
C4_VisibleIsDecimatedMinusExcluded ==
    loaded => points = Without(DecimatedSet(resolution), ToSet(exclude))

\* C5: a pick of the visible index k on the exclusion list E leaves the active
\* and the stored list equal to E with the translated index added, ascending
\* and duplicate-free, and one visible point fewer.
C5_PickExcludesOnePoint ==
    [][\A k \in 0..(Len(points) - 1) :
         (loaded /\ lastOp'.op = "pick" /\ lastOp'.arg = k) =>
            LET d == pick_index(k, exclude)
            IN  /\ exclude' = Sorted(ToSet(exclude) \cup {d})
                /\ resolution \in DOMAIN _exclude'
                /\ _exclude'[resolution] = exclude'
                /\ Len(points') = Len(points) - 1]_vars

\* C6: between two loads the provider is invoked at most once per resolution,
\* exactly for the resolutions the cache holds.
C6_ProviderOncePerResolution ==
    \A r \in Resolutions :
        /\ calls[r] <= 1
        /\ calls[r] = 1 <=> r \in DOMAIN _cache

\* a second request: get_dec_points(RefRes) after the load that cached RefRes
C6_Witness ==
    /\ loaded
    /\ lastOp = [op |-> "get_dec_points", arg |-> RefRes]
    /\ calls[RefRes] = 1

\* C7: every cache entry is the decimation of the current source cloud, and a
\* load leaves only the entries it computed itself, by a provider call each.
C7_CacheOfCurrentCloud ==
    /\ \A r \in DOMAIN _cache : _cache[r] = DecimatedSet(r)
    /\ lastOp.op = "load" =>
          /\ DOMAIN _cache = {RefRes, resolution}
          /\ \A r \in DOMAIN _cache : calls[r] = 1

\* a cloud replaced by another one, the reference resolution cached under both
C7_Witness ==
    /\ lastOp = [op |-> "load", arg |-> 1]
    /\ hsp_points = <<3>>
    /\ RefRes \in DOMAIN _cache

\* C8: after a load the active exclusion list and every stored one are empty
\* and the visible points are the whole decimated set of the new cloud.
C8_LoadClearsExclusions ==
    lastOp.op = "load" =>
        /\ exclude = <<>>
        /\ \A r \in DOMAIN _exclude : _exclude[r] = <<>>
        /\ points = DecimatedSet(resolution)

\* a load that found a non-empty active list: its reset ran _exclude_changed,
\* which stored the empty list for the active resolution
C8_Witness ==
    /\ lastOp = [op |-> "load", arg |-> 1]
    /\ resolution \in DOMAIN _exclude

C10_ValidationIdempotent ==
    (loaded /\ lastOp.op = "setExclude") =>
        LET again == assign_exclude([Self EXCEPT !.exclude = <<-1>>], exclude)
        IN  /\ Ascending(exclude)
            /\ Get(_exclude, resolution, <<>>) = exclude
            /\ again.exclude = exclude
            /\ again._exclude[resolution] = exclude

\* an edit on a decimated set of 3 points that left two indices excluded
C10_Witness ==
    /\ loaded
    /\ lastOp.op = "setExclude"
    /\ n_points_all = 3
    /\ exclude = <<0, 2>>

\* the object's fields other than the error of the last operation
Fields ==
    <<loaded, hsp_points, resolution, exclude, points, ref_points, n_points_all,
      _cache, _exclude, calls>>

\* C11: a pick carrying -1 leaves the visible points, their count, the active
\* exclusion list and every stored one unchanged and raises nothing.
C11_SentinelNoOp ==
    [][(lastOp'.op = "pick" /\ lastOp'.arg = -1)
         => /\ UNCHANGED Fields
            /\ n_points' = n_points
            /\ err' = "none"]_vars

\* a sentinel pick while points are excluded
C11_Witness ==
    /\ loaded
    /\ lastOp = [op |-> "pick", arg |-> -1]
    /\ exclude # <<>>

\* C12: can_save is true exactly when there is a visible point.
C12_CanSaveIffPoints ==
    can_save <=> n_points > 0

\* C13: a load whose reader raises leaves the source cloud, the cache, the
\* stored and the active exclusion lists, the reference points and the
\* visible points as they were.
C13_FailedLoadChangesNothing ==
    [][lastOp'.op = "loadFail" => UNCHANGED Fields]_vars

\* a failed load over a loaded cloud with an exclusion
C13_Witness ==
    /\ loaded
    /\ lastOp.op = "loadFail"
    /\ exclude # <<>>
    /\ resolution \in DOMAIN _cache

\* C14: a resolution outside ResLow..ResHigh is refused with an error and
\* changes nothing; nothing is decimated for it.
C14_InvalidResolutionRejected ==
    [][(lastOp'.op = "setResolution"
        /\ (lastOp'.arg < ResLow \/ lastOp'.arg > ResHigh))
         => /\ err' = "TraitError"
            /\ UNCHANGED Fields
            /\ lastOp'.arg \notin DOMAIN _cache']_vars

\* a refused resolution on a loaded cloud
C14_Witness ==
    /\ loaded
    /\ lastOp = [op |-> "setResolution", arg |-> ResHigh + 1]
    /\ err = "TraitError"

\* C15: on a loaded cloud cache() only adds cache entries, each the decimation
\* of the current cloud by one provider call, for resolutions not cached yet;
\* every other field stays as it was.
C15_WarmOnlyAddsEntries ==
    [][(loaded /\ lastOp'.op = "cache")
         => /\ UNCHANGED <<loaded, hsp_points, resolution, exclude, points,
                           ref_points, n_points_all, _exclude>>
            /\ DOMAIN _cache \subseteq DOMAIN _cache'
            /\ \A r \in DOMAIN _cache : _cache'[r] = _cache[r] /\ calls'[r] = calls[r]
            /\ \A r \in DOMAIN _cache' \ DOMAIN _cache :
                  _cache'[r] = DecimatedSet(r) /\ calls'[r] = 1]_vars

\* a cache() call that added the entry of a resolution never made active
C15_Witness ==
    /\ loaded
    /\ lastOp = [op |-> "cache", arg |-> 1]
    /\ resolution = RefRes
    /\ ResDefault \in DOMAIN _cache
    /\ ResDefault \notin DOMAIN _exclude
    /\ exclude # <<>>

\* C16: on a loaded cloud the reference points are the decimation of the
\* current cloud at RefRes, whatever the resolution and the exclusions.
C16_ReferenceIsFixedDecimation ==
    loaded => ref_points = DecimatedSet(RefRes)

\* points excluded while the active resolution is the reference resolution
C16_Witness ==
    /\ loaded
    /\ resolution = RefRes
    /\ exclude # <<>>
    /\ Len(points) < Len(ref_points)

\* C17: once loaded the object stays loaded, and get_dec_points on a loaded
\* object does not raise.
C17_LoadedForever ==
    [][loaded => /\ loaded'
                 /\ lastOp'.op = "get_dec_points" => err' = "none"]_vars

\* get_dec_points answered on a loaded object
C17_Witness ==
    /\ loaded
    /\ lastOp.op = "get_dec_points"
    /\ err = "none"

\* C20: on a loaded cloud the active exclusion list is the list stored for the
\* active resolution, or is empty when none is stored.
C20_ActiveListIsStoredList ==
    loaded => exclude = Get(_exclude, resolution, <<>>)

\* a return to a resolution whose stored list is not empty
C20_Witness ==
    /\ loaded
    /\ lastOp.op = "setResolution"
    /\ resolution \in DOMAIN leftWith
    /\ exclude # <<>>

----------------------------------------------------------------------------
(* Channel equalization *)

\* the names every candidate of the list has
CommonNames(cands) ==
    {n \in Names : \A i \in 1..Len(cands) : n \in ToSet(ch_names(cands[i]))}

\* seq without the names of D, order kept
Kept(seq, D) ==
    LET keep(n) == n \notin D
    IN  SelectSeq(seq, keep)

\* row j of the picks, of both projector axes and of the data is the row of
\* channel j of the info
Aligned(c) ==
    /\ c.info.nchan = Len(ch_names(c))
    /\ c.has_picks =>
          c.picks = [j \in 1..Len(ch_names(c)) |-> FileIndex(ch_names(c)[j])]
    /\ c.has_projector => c.proj_rows = ch_names(c) /\ c.proj_cols = ch_names(c)
    /\ (c.preload \/ c.kind = "Evoked") => c.data = ch_names(c)

\* C18: after equalize_channels on Raw, Epochs and Evoked candidates the
\* channel-name set of every candidate is the intersection of the name sets
\* the candidates had before, and a candidate that had exactly these names
\* is left as it was.
C18_EqualizedToIntersection ==
    [][(chanOp'.op = "equalize" /\ chanOp'.err = "none") =>
          /\ Len(candidates') = Len(candidates)
          /\ \A i \in 1..Len(candidates) :
                /\ ToSet(ch_names(candidates'[i])) = CommonNames(candidates)
                /\ ToSet(ch_names(candidates[i])) = CommonNames(candidates)
                      => candidates'[i] = candidates[i]]_vars

\* three candidates equalized to the one name they shared, two names dropped
C18_Witness ==
    /\ chanOp.op = "equalize"
    /\ chanOp.err = "none"
    /\ chanOp.names = {1, 3}
    /\ Len(candidates) = 3
    /\ \A i \in 1..3 : ch_names(candidates[i]) = <<2>>

\* C19: a drop_channels(D) that succeeds leaves the channels not named in
\* D, in their order, and the info, the picks, both projector axes and the
\* data rows of the object then have the same length and the same channel in
\* every row; the other objects are left alone.
C19_DropSelectsConsistently ==
    [][\A i \in 1..Len(candidates) :
          (chanOp'.op = "drop" /\ chanOp'.arg = i /\ chanOp'.err = "none") =>
              /\ ch_names(candidates'[i]) = Kept(ch_names(candidates[i]), chanOp'.names)
              /\ Aligned(candidates'[i])
              /\ \A j \in 1..Len(candidates) :
                    j # i => candidates'[j] = candidates[j]]_vars

\* preloaded Epochs with a projector, the middle channel of <<3, 2, 1>> dropped
C19_Witness ==
    /\ chanOp.op = "drop"
    /\ chanOp.err = "none"
    /\ chanOp.names = {2}
    /\ candidates[chanOp.arg].kind = "Epochs"
    /\ candidates[chanOp.arg].preload
    /\ ch_names(candidates[chanOp.arg]) = <<3, 1>>
    /\ candidates[chanOp.arg].picks = <<FileIndex(3), FileIndex(1)>>
    /\ candidates[chanOp.arg].proj_cols = <<3, 1>>
    /\ candidates[chanOp.arg].data = <<3, 1>>

====
